---- MODULE Spec2Model ----
(***************************************************************************)
(* Model of the TradingView -> Binance Futures webhook bot (src/app.py).   *)
(* One Flask handler, webhook(), translated step by step; the exchange     *)
(* (ccxt client) is the environment: every call either returns a value     *)
(* drawn from a small set or raises ccxt.BaseError.                        *)
(*                                                                         *)
(* Python values are tagged records [t, s, n, d]: t is the type tag, s the *)
(* characters of a str, n/d the numerator and denominator of a number      *)
(* (floats are modelled as exact rationals, so rounding is abstracted).    *)
(***************************************************************************)
EXTENDS Integers, Sequences, FiniteSets, TLC

\* ---------------------------------------------------------------- bounds
NumThreads == 2
MaxPositions == 2

\* ------------------------------------------------------ program constants
MinBalance == 1
PctDivisor == 100

Threads == 1..NumThreads

\* ------------------------------------------------------------- rationals
Abs(x) == IF x < 0 THEN -x ELSE x

RECURSIVE Gcd(_, _)
Gcd(a, b) == IF b = 0 THEN a ELSE Gcd(b, a % b)

\* a float value n/d in lowest terms, d > 0
Float(n, d) ==
    LET g == Gcd(Abs(n), Abs(d))
        s == IF d < 0 THEN -1 ELSE 1
    IN  [t |-> "float", s |-> <<>>, n |-> (s * n) \div g, d |-> (s * d) \div g]

FMul(a, b) == Float(a.n * b.n, a.d * b.d)
FDiv(a, b) == Float(a.n * b.d, a.d * b.n)
FSub(a, b) == Float(a.n * b.d - b.n * a.d, a.d * b.d)
FLe(a, b)  == a.n * b.d <= b.n * a.d
FGt(a, b)  == a.n * b.d > b.n * a.d
FEq(a, b)  == a.n * b.d = b.n * a.d

\* --------------------------------------------------------- Python values
None    == [t |-> "none",   s |-> <<>>, n |-> 0, d |-> 1]
Absent  == [t |-> "absent", s |-> <<>>, n |-> 0, d |-> 1]
Unset   == [t |-> "unset",  s |-> <<>>, n |-> 0, d |-> 1]
BigInt  == [t |-> "bigint", s |-> <<>>, n |-> 0, d |-> 1]
EmptyList == [t |-> "list", s |-> <<>>, n |-> 0, d |-> 1]
PyStr(c)  == [t |-> "str", s |-> c, n |-> 0, d |-> 1]
PyInt(i)  == [t |-> "int", s |-> <<>>, n |-> i, d |-> 1]

IsNumber(v) == v.t \in {"int", "float"}

\* the strings the model uses, as character sequences
BUY      == <<"b", "u", "y">>
SELL     == <<"s", "e", "l", "l">>
CLOSE    == <<"c", "l", "o", "s", "e">>
ETHUSDT  == <<"E", "T", "H", "U", "S", "D", "T">>
BTCUSDT  == <<"B", "T", "C", "U", "S", "D", "T">>
WRONGKEY == <<"t", "e", "s", "t">>

\* SECRET_KEY = os.getenv("SECRET_KEY", "test1234")
SECRET_KEY == PyStr(<<"t", "e", "s", "t", "1", "2", "3", "4">>)

\* Python ==: numbers compare by value, everything else by type and content
PyEq(a, b) ==
    IF IsNumber(a) /\ IsNumber(b) THEN FEq(a, b) ELSE a = b

\* mutant: `symbol is None` instead of `not symbol`
TruthyNotNone(v) == v.t \notin {"none", "absent"}

\* Python truthiness, as used by `not symbol`
Truthy(v) ==
    CASE v.t \in {"none", "absent"} -> FALSE
      [] v.t = "str"    -> Len(v.s) > 0
      [] v.t = "list"   -> v.n > 0
      [] v.t = "bigint" -> TRUE
      [] OTHER          -> v.n # 0

\* dict.get(key, default): a missing key yields the default
Get(v, default) == IF v.t = "absent" THEN default ELSE v

\* ---------------------------------------------------------------- float()
Digits == <<"0", "1", "2", "3", "4", "5", "6", "7", "8", "9">>
IsDigit(c) == \E i \in 1..10 : Digits[i] = c
DigitVal(c) == (CHOOSE i \in 1..10 : Digits[i] = c) - 1

RECURSIVE DigitsVal(_)
DigitsVal(cs) ==
    IF cs = <<>> THEN 0
    ELSE 10 * DigitsVal(SubSeq(cs, 1, Len(cs) - 1)) + DigitVal(cs[Len(cs)])

\* float(str) for strings of the shape [+-]digits; any other string of the
\* model's inputs is one Python rejects with ValueError as well
ParseFloat(cs) ==
    LET signed == Len(cs) > 0 /\ cs[1] \in {"-", "+"}
        ds     == IF signed THEN SubSeq(cs, 2, Len(cs)) ELSE cs
    IN  IF Len(ds) > 0 /\ \A i \in 1..Len(ds) : IsDigit(ds[i])
        THEN [exc |-> "",
              val |-> Float((IF signed /\ cs[1] = "-" THEN -1 ELSE 1) * DigitsVal(ds), 1)]
        ELSE [exc |-> "ValueError", val |-> Float(0, 1)]

\* float(v): the value, or the exception class Python raises
PyFloat(v) ==
    CASE v.t = "int"    -> [exc |-> "", val |-> Float(v.n, 1)]
      [] v.t = "float"  -> [exc |-> "", val |-> v]
      [] v.t = "str"    -> ParseFloat(v.s)
      [] v.t = "bigint" -> [exc |-> "OverflowError", val |-> Float(0, 1)]
      [] OTHER          -> [exc |-> "TypeError", val |-> Float(0, 1)]

\* ------------------------------------------------------- request bodies
\* request.get_json(force=True) either raises (kind "invalid"), or returns a
\* JSON value that is not an object (kind "scalar", the value in val), or a
\* dict (kind "object") whose keys may be missing (Absent)
Body(kind, val, secret, symbol, side, action, qty) ==
    [kind |-> kind, val |-> val, secret |-> secret, symbol |-> symbol,
     side |-> side, action |-> action, qty_pct |-> qty]

NoBody == Body("none", Unset, Absent, Absent, Absent, Absent, Absent)

SecretValues == {Absent, SECRET_KEY, PyStr(WRONGKEY)}
SymbolValues == {Absent, PyStr(<<>>), PyStr(ETHUSDT), PyStr(BTCUSDT)}
SideValues   == {Absent, PyStr(BUY), PyStr(SELL)}
ActionValues == {Absent, PyStr(CLOSE)}
QtyValues    == {Absent, None, PyInt(10), PyStr(<<"5", "0">>),
                 PyStr(<<"a", "b", "c">>), BigInt}
ScalarValues == {None, EmptyList, PyInt(1), PyStr(BUY)}

Bodies ==
    {Body("invalid", Unset, Absent, Absent, Absent, Absent, Absent)}
    \cup {Body("scalar", v, Absent, Absent, Absent, Absent, Absent) : v \in ScalarValues}
    \cup {Body("object", Unset, sec, sym, sd, ac, q) :
            sec \in SecretValues, sym \in SymbolValues, sd \in SideValues,
            ac \in ActionValues, q \in QtyValues}

\* authorised close alerts, the requests of the concurrent specification
CloseBodies ==
    {Body("object", Unset, SECRET_KEY, PyStr(ETHUSDT), Absent, PyStr(CLOSE), Absent)}

\* ------------------------------------------------- exchange (environment)
\* one entry of exchange.fetch_positions(): ccxt's unified position, whose
\* contracts field is unsigned and whose side tells long from short
Position(symbol, entryPrice, contracts, side) ==
    [symbol |-> symbol, entryPrice |-> entryPrice, contracts |-> contracts, side |-> side]

NoPos == Position(<<>>, Unset, Unset, "none")

PositionRecords ==
    {Position(ETHUSDT, Float(2000, 1), Float(3, 1), "long"),
     Position(ETHUSDT, Float(2000, 1), Float(5, 1), "short"),
     Position(ETHUSDT, Absent, Absent, "none"),
     Position(ETHUSDT, Float(0, 1), Float(0, 1), "none"),
     Position(BTCUSDT, Float(30000, 1), Float(3, 1), "long")}

Snapshots == UNION {[1..k -> PositionRecords] : k \in 0..MaxPositions}

\* balance['free'] either lacks USDT or holds a number
FreeValues == {Absent, Float(0, 1), Float(1, 1), Float(3, 2), Float(1000, 1)}
\* ticker['last'] is None when the exchange has no last trade
LastValues == {None, Float(0, 1), Float(2000, 1), Float(5, 2)}
\* str(e) of a ccxt.BaseError
ErrMsgs == {"network error", "order rejected"}

\* the signed quantity of a position: positive long, negative short
SignedQty(p) ==
    LET c == PyFloat(Get(p.contracts, PyInt(0))).val
    IN  IF p.side = "short" THEN Float(-c.n, c.d) ELSE c

\* ------------------------------------------------------------------ state
VARIABLES
    pc,         \* per thread: where its request is in webhook()
    body,       \* per thread: the request body it is handling
    loc,        \* per thread: webhook()'s local variables
    submitted,  \* per thread: order-submission calls made for this request
    resp,       \* per thread: the response returned (or the escaped exception)
    positions   \* the exchange account's positions

vars == <<pc, body, loc, submitted, resp, positions>>

NoLoc ==
    [qty_pct |-> Unset, available_balance |-> Unset, last_price |-> Unset,
     amount |-> Unset, fetched |-> FALSE, snapshot |-> <<>>, pos |-> NoPos,
     qty |-> Unset]

NoResp == [code |-> 0, status |-> "", message |-> "", order |-> FALSE]

Response(code, status, message, order) ==
    [code |-> code, status |-> status, message |-> message, order |-> order]

Order(symbol, side, amount, reduceOnly) ==
    [symbol |-> symbol, side |-> side, amount |-> amount, reduceOnly |-> reduceOnly]

Init ==
    /\ pc = [r \in Threads |-> "idle"]
    /\ body = [r \in Threads |-> NoBody]
    /\ loc = [r \in Threads |-> NoLoc]
    /\ submitted = [r \in Threads |-> <<>>]
    /\ resp = [r \in Threads |-> NoResp]
    /\ positions \in Snapshots

\* return jsonify(...), code
Return(r, code, status, message, order) ==
    /\ pc' = [pc EXCEPT ![r] = "done"]
    /\ resp' = [resp EXCEPT ![r] = Response(code, status, message, order)]

\* an exception that no except clause of webhook() catches
Escape(r, exc) ==
    /\ pc' = [pc EXCEPT ![r] = "escaped"]
    /\ resp' = [resp EXCEPT ![r] = Response(500, "unhandled", exc, FALSE)]

\* ------------------------------------------------------- webhook(), entry
\* a POST /webhook is routed to a free thread
Receive(r, b) ==
    /\ pc[r] = "idle"
    /\ pc' = [pc EXCEPT ![r] = "parse"]
    /\ body' = [body EXCEPT ![r] = b]
    /\ UNCHANGED <<loc, submitted, resp, positions>>

\* data = request.get_json(force=True), except: 400
ParseJson(r) ==
    /\ pc[r] = "parse"
    /\ IF body[r].kind = "invalid"
       THEN Return(r, 400, "error", "Invalid JSON", FALSE)
       ELSE /\ pc' = [pc EXCEPT ![r] = "auth"]
            /\ UNCHANGED resp
    /\ UNCHANGED <<body, loc, submitted, positions>>

\* mutant: the check is skipped when the request carries no secret
SecretMismatchIfPresent(b) ==
    b.secret # Absent /\ ~PyEq(Get(b.secret, None), SECRET_KEY)

\* data.get("secret") != SECRET_KEY
SecretMismatch(b) == ~PyEq(Get(b.secret, None), SECRET_KEY)

\* 1. validate the secret key; data.get on a non-dict raises AttributeError
CheckSecret(r) ==
    /\ pc[r] = "auth"
    /\ IF body[r].kind = "scalar"
       THEN Escape(r, "AttributeError")
       ELSE IF SecretMismatch(body[r])
            THEN Return(r, 403, "error", "Invalid secret key", FALSE)
            ELSE /\ pc' = [pc EXCEPT ![r] = "extract"]
                 /\ UNCHANGED resp
    /\ UNCHANGED <<body, loc, submitted, positions>>

\* qty_pct = float(data.get("qty_pct", 0)), 0 on ValueError or TypeError
QtyPct(b) ==
    LET f == PyFloat(Get(b.qty_pct, PyInt(0)))
    IN  IF f.exc \in {"ValueError", "TypeError"}
        THEN [exc |-> "", val |-> PyInt(0)]
        ELSE f

\* 2. extract the fields; 400 when symbol is falsy
ExtractFields(r) ==
    /\ pc[r] = "extract"
    /\ LET q == QtyPct(body[r]) IN
       IF q.exc # ""
       THEN /\ Escape(r, q.exc)
            /\ UNCHANGED loc
       ELSE /\ loc' = [loc EXCEPT ![r].qty_pct = q.val]
            /\ IF ~Truthy(Get(body[r].symbol, None))
               THEN Return(r, 400, "error", "Missing 'symbol' in webhook data", FALSE)
               ELSE /\ pc' = [pc EXCEPT ![r] = "dispatch"]
                    /\ UNCHANGED resp
    /\ UNCHANGED <<body, submitted, positions>>

\* if side == "buy" ... elif action == "close" ... else
Route(b) ==
    IF PyEq(Get(b.side, None), PyStr(BUY)) THEN "fetch_balance"
    ELSE IF PyEq(Get(b.action, None), PyStr(CLOSE)) THEN "fetch_positions"
    ELSE "invalid"

Dispatch(r) ==
    /\ pc[r] = "dispatch"
    /\ IF Route(body[r]) = "invalid"
       THEN Return(r, 400, "error", "Webhook received with invalid 'side' or 'action'", FALSE)
       ELSE /\ pc' = [pc EXCEPT ![r] = Route(body[r])]
            /\ UNCHANGED resp
    /\ UNCHANGED <<body, loc, submitted, positions>>

\* --------------------------------------------------------------- buy flow
\* available_balance = balance['free'].get("USDT", 0)
AvailableBalance(free) == Get(free, PyInt(0))

\* mutant: `<` instead of `<=`
InsufficientStrict(available_balance) ==
    ~FLe(PyInt(MinBalance), available_balance)

\* if available_balance <= 1
Insufficient(available_balance) == FLe(available_balance, PyInt(MinBalance))

\* balance = exchange.fetch_balance() returned; the minimum-balance check
FetchBalanceOk(r, free) ==
    /\ pc[r] = "fetch_balance"
    /\ loc' = [loc EXCEPT ![r].available_balance = AvailableBalance(free)]
    /\ IF Insufficient(AvailableBalance(free))
       THEN Return(r, 400, "error", "Insufficient balance", FALSE)
       ELSE /\ pc' = [pc EXCEPT ![r] = "fetch_ticker"]
            /\ UNCHANGED resp
    /\ UNCHANGED <<body, submitted, positions>>

\* exchange.fetch_balance() raised: except ccxt.BaseError, 500 with str(e)
FetchBalanceRaises(r, msg) ==
    /\ pc[r] = "fetch_balance"
    /\ Return(r, 500, "error", msg, FALSE)
    /\ UNCHANGED <<body, loc, submitted, positions>>

\* mutant: the percentage is used as a fraction
AmountInUsdtNoPercent(available_balance, qty_pct) ==
    FMul(available_balance, qty_pct)

\* amount_in_usdt = available_balance * (qty_pct / 100)
AmountInUsdt(available_balance, qty_pct) ==
    FMul(available_balance, FDiv(qty_pct, PyInt(PctDivisor)))

\* amount = amount_in_usdt / last_price, or the exception the division raises
Amount(available_balance, qty_pct, last_price) ==
    IF last_price.t = "none"
    THEN [exc |-> "unsupported operand type(s) for /: 'float' and 'NoneType'",
          val |-> Unset]
    ELSE IF last_price.n = 0
    THEN [exc |-> "float division by zero", val |-> Unset]
    ELSE [exc |-> "", val |-> FDiv(AmountInUsdt(available_balance, qty_pct), last_price)]

\* ticker = exchange.fetch_ticker(symbol) returned; the order size
FetchTickerOk(r, last) ==
    /\ pc[r] = "fetch_ticker"
    /\ LET a == Amount(loc[r].available_balance, loc[r].qty_pct, last) IN
       /\ loc' = [loc EXCEPT ![r].last_price = last, ![r].amount = a.val]
       /\ IF a.exc # ""
          THEN Return(r, 500, "error", a.exc, FALSE)
          ELSE /\ pc' = [pc EXCEPT ![r] = "buy_order"]
               /\ UNCHANGED resp
    /\ UNCHANGED <<body, submitted, positions>>

FetchTickerRaises(r, msg) ==
    /\ pc[r] = "fetch_ticker"
    /\ Return(r, 500, "error", msg, FALSE)
    /\ UNCHANGED <<body, loc, submitted, positions>>

\* the arguments of exchange.create_market_buy_order(symbol, amount)
BuyOrder(b, l) == Order(b.symbol, "buy", l.amount, FALSE)

\* the order call returned: 200 with the order
CreateBuyOk(r) ==
    /\ pc[r] = "buy_order"
    /\ submitted' = [submitted EXCEPT ![r] = Append(@, BuyOrder(body[r], loc[r]))]
    /\ Return(r, 200, "success", "", TRUE)
    /\ UNCHANGED <<body, loc, positions>>

\* mutant: a failed order call is tried again
CreateBuyRaisesRetry(r, msg) ==
    /\ pc[r] = "buy_order"
    /\ submitted' = [submitted EXCEPT ![r] = Append(@, BuyOrder(body[r], loc[r]))]
    /\ UNCHANGED <<pc, resp, body, loc, positions>>

\* the order call raised: 500 with str(e), no retry
CreateBuyRaises(r, msg) ==
    /\ pc[r] = "buy_order"
    /\ submitted' = [submitted EXCEPT ![r] = Append(@, BuyOrder(body[r], loc[r]))]
    /\ Return(r, 500, "error", msg, FALSE)
    /\ UNCHANGED <<body, loc, positions>>

\* ------------------------------------------------------------- close flow
\* mutant: the symbol is not compared
MatchesAnySymbol(p, symbol) ==
    FGt(PyFloat(Get(p.entryPrice, PyInt(0))).val, PyInt(0))

\* p.get('symbol') == symbol and float(p.get("entryPrice", 0)) > 0
Matches(p, symbol) ==
    /\ PyEq(PyStr(p.symbol), symbol)
    /\ FGt(PyFloat(Get(p.entryPrice, PyInt(0))).val, PyInt(0))

\* pos = next((p for p in positions if ...), None)
FindPos(snapshot, symbol) ==
    IF \E i \in 1..Len(snapshot) : Matches(snapshot[i], symbol)
    THEN snapshot[CHOOSE i \in 1..Len(snapshot) :
                     /\ Matches(snapshot[i], symbol)
                     /\ \A j \in 1..(i - 1) : ~Matches(snapshot[j], symbol)]
    ELSE NoPos

\* pos and float(pos.get("contracts", 0)) > 0
HasOpen(pos) ==
    /\ pos # NoPos
    /\ FGt(PyFloat(Get(pos.contracts, PyInt(0))).val, PyInt(0))

\* mutant: a lock held from the read of the positions to the close order
FetchPositionsLocked(r) ==
    /\ pc[r] = "fetch_positions"
    /\ \A o \in Threads : pc[o] # "sell_order"
    /\ LET pos == FindPos(positions, body[r].symbol) IN
       IF HasOpen(pos)
       THEN /\ loc' = [loc EXCEPT ![r].fetched = TRUE, ![r].snapshot = positions,
                                  ![r].pos = pos,
                                  ![r].qty = PyFloat(pos.contracts).val]
            /\ pc' = [pc EXCEPT ![r] = "sell_order"]
            /\ UNCHANGED resp
       ELSE /\ loc' = [loc EXCEPT ![r].fetched = TRUE, ![r].snapshot = positions,
                                  ![r].pos = pos]
            /\ Return(r, 200, "info", "No open position to close", FALSE)
    /\ UNCHANGED <<body, submitted, positions>>

\* positions = exchange.fetch_positions([symbol]) returned; find the position
FetchPositionsOk(r) ==
    /\ pc[r] = "fetch_positions"
    /\ LET pos == FindPos(positions, body[r].symbol) IN
       IF HasOpen(pos)
       THEN /\ loc' = [loc EXCEPT ![r].fetched = TRUE, ![r].snapshot = positions,
                                  ![r].pos = pos,
                                  ![r].qty = PyFloat(pos.contracts).val]
            /\ pc' = [pc EXCEPT ![r] = "sell_order"]
            /\ UNCHANGED resp
       ELSE /\ loc' = [loc EXCEPT ![r].fetched = TRUE, ![r].snapshot = positions,
                                  ![r].pos = pos]
            /\ Return(r, 200, "info", "No open position to close", FALSE)
    /\ UNCHANGED <<body, submitted, positions>>

FetchPositionsRaises(r, msg) ==
    /\ pc[r] = "fetch_positions"
    /\ Return(r, 500, "error", msg, FALSE)
    /\ UNCHANGED <<body, loc, submitted, positions>>

\* the arguments of exchange.create_market_sell_order(symbol, qty, {"reduceOnly": True})
CloseOrder(b, l) == Order(b.symbol, "sell", l.qty, TRUE)

\* the exchange fills a reduce-only sell: it shrinks the first long position
\* of the symbol, by at most its size, and never opens or flips one
Fill(snapshot, o) ==
    LET hit(i) == /\ PyEq(PyStr(snapshot[i].symbol), o.symbol)
                  /\ snapshot[i].side = "long"
                  /\ FGt(SignedQty(snapshot[i]), PyInt(0))
    IN  IF \E i \in 1..Len(snapshot) : hit(i)
        THEN LET i == CHOOSE k \in 1..Len(snapshot) :
                          hit(k) /\ \A j \in 1..(k - 1) : ~hit(j)
                 rest == FSub(SignedQty(snapshot[i]), o.amount)
             IN  [snapshot EXCEPT ![i] =
                    IF FGt(rest, PyInt(0))
                    THEN [@ EXCEPT !.contracts = rest]
                    ELSE Position(@.symbol, Float(0, 1), Float(0, 1), "none")]
        ELSE snapshot

\* the close order was accepted: 200 with the order
CreateSellOk(r) ==
    /\ pc[r] = "sell_order"
    /\ submitted' = [submitted EXCEPT ![r] = Append(@, CloseOrder(body[r], loc[r]))]
    /\ positions' = Fill(positions, CloseOrder(body[r], loc[r]))
    /\ Return(r, 200, "success", "", TRUE)
    /\ UNCHANGED <<body, loc>>

\* the close order raised: 500 with str(e), no retry
CreateSellRaises(r, msg) ==
    /\ pc[r] = "sell_order"
    /\ submitted' = [submitted EXCEPT ![r] = Append(@, CloseOrder(body[r], loc[r]))]
    /\ Return(r, 500, "error", msg, FALSE)
    /\ UNCHANGED <<body, loc, positions>>

\* the response is sent and the thread is free for the next request
Finish(r) ==
    /\ pc[r] \in {"done", "escaped"}
    /\ pc' = [pc EXCEPT ![r] = "idle"]
    /\ body' = [body EXCEPT ![r] = NoBody]
    /\ loc' = [loc EXCEPT ![r] = NoLoc]
    /\ submitted' = [submitted EXCEPT ![r] = <<>>]
    /\ resp' = [resp EXCEPT ![r] = NoResp]
    /\ UNCHANGED positions

\* -------------------------------------------------------- specifications
\* any alert, one request in flight at a time
Arrive ==
    /\ \A o \in Threads : pc[o] = "idle"
    /\ \E r \in Threads, b \in Bodies : Receive(r, b)
\* close alerts, handled concurrently by the server's threads
ArriveClose == \E r \in Threads, b \in CloseBodies : Receive(r, b)

DoParseJson == \E r \in Threads : ParseJson(r)
DoCheckSecret == \E r \in Threads : CheckSecret(r)
DoExtractFields == \E r \in Threads : ExtractFields(r)
DoDispatch == \E r \in Threads : Dispatch(r)
DoFetchBalanceOk == \E r \in Threads, free \in FreeValues : FetchBalanceOk(r, free)
DoFetchBalanceRaises == \E r \in Threads, msg \in ErrMsgs : FetchBalanceRaises(r, msg)
DoFetchTickerOk == \E r \in Threads, last \in LastValues : FetchTickerOk(r, last)
DoFetchTickerRaises == \E r \in Threads, msg \in ErrMsgs : FetchTickerRaises(r, msg)
DoCreateBuyOk == \E r \in Threads : CreateBuyOk(r)
DoCreateBuyRaises == \E r \in Threads, msg \in ErrMsgs : CreateBuyRaises(r, msg)
DoFetchPositionsOk == \E r \in Threads : FetchPositionsOk(r)
DoFetchPositionsRaises == \E r \in Threads, msg \in ErrMsgs : FetchPositionsRaises(r, msg)
DoCreateSellOk == \E r \in Threads : CreateSellOk(r)
DoCreateSellRaises == \E r \in Threads, msg \in ErrMsgs : CreateSellRaises(r, msg)
DoFinish == \E r \in Threads : Finish(r)

Next ==
    \/ Arrive
    \/ DoParseJson
    \/ DoCheckSecret
    \/ DoExtractFields
    \/ DoDispatch
    \/ DoFetchBalanceOk
    \/ DoFetchBalanceRaises
    \/ DoFetchTickerOk
    \/ DoFetchTickerRaises
    \/ DoCreateBuyOk
    \/ DoCreateBuyRaises
    \/ DoFetchPositionsOk
    \/ DoFetchPositionsRaises
    \/ DoCreateSellOk
    \/ DoCreateSellRaises
    \/ DoFinish

Spec == Init /\ [][Next]_vars

RaceNext ==
    \/ ArriveClose
    \/ DoParseJson
    \/ DoCheckSecret
    \/ DoExtractFields
    \/ DoDispatch
    \/ DoFetchPositionsOk
    \/ DoFetchPositionsRaises
    \/ DoCreateSellOk
    \/ DoCreateSellRaises
    \/ DoFinish

\* the account of the concurrent specification holds ETHUSDT positions only
RaceSnapshots ==
    {sn \in Snapshots :
        \A i \in 1..Len(sn) : sn[i].symbol = ETHUSDT /\ sn[i].side # "none"}

RaceInit ==
    /\ pc = [r \in Threads |-> "idle"]
    /\ body = [r \in Threads |-> NoBody]
    /\ loc = [r \in Threads |-> NoLoc]
    /\ submitted = [r \in Threads |-> <<>>]
    /\ resp = [r \in Threads |-> NoResp]
    /\ positions \in RaceSnapshots

RaceSpec == RaceInit /\ [][RaceNext]_vars

\* ------------------------------------------------------------ properties
Finished(r) == pc[r] \in {"done", "escaped"}

\* the symbol key is missing or holds the empty string
NoSymbol(b) == b.symbol \in {Absent, PyStr(<<>>)}

\* the percentage each qty_pct of the inputs stands for (0 when missing or
\* not a number)
ExpectedPct(v) ==
    CASE v = PyInt(10) -> 10
      [] v = PyStr(<<"5", "0">>) -> 50
      [] OTHER -> 0

\* entries of a fetched snapshot that belong to the symbol and are not flat
OpenEntries(snapshot, symbol) ==
    {i \in 1..Len(snapshot) :
        /\ PyStr(snapshot[i].symbol) = symbol
        /\ snapshot[i].contracts.t = "float"
        /\ snapshot[i].contracts.n # 0}

\* C1: a request whose secret differs from the configured one (or is missing)
\* is answered 403 whatever its symbol, side, action and qty_pct are, and
\* never gets past the secret check
ThmC1 ==
    \A r \in Threads :
        (body[r].kind = "object" /\ body[r].secret # SECRET_KEY) =>
            /\ pc[r] \in {"parse", "auth", "done"}
            /\ pc[r] = "done" => (resp[r].code = 403 /\ resp[r].status = "error")

WitC1 ==
    \E r \in Threads :
        /\ pc[r] = "done" /\ resp[r].code = 403
        /\ body[r].secret = PyStr(WRONGKEY)
        /\ body[r].symbol = Absent
        /\ body[r].side = PyStr(BUY)
        /\ body[r].qty_pct = BigInt

CexC3 ==
    \A r \in Threads :
        (pc[r] = "done" /\ loc[r].fetched
           /\ OpenEntries(loc[r].snapshot, body[r].symbol) # {}) =>
            LET i == CHOOSE k \in OpenEntries(loc[r].snapshot, body[r].symbol) :
                        \A j \in OpenEntries(loc[r].snapshot, body[r].symbol) : k <= j
                q == SignedQty(loc[r].snapshot[i])
            IN  submitted[r] =
                  <<Order(body[r].symbol, IF q.n > 0 THEN "sell" ELSE "buy",
                          Float(Abs(q.n), q.d), TRUE)>>

\* C4 as stated: in the buy flow, a ticker without a last price is answered
\* 400 and no order is submitted
CexC4 ==
    \A r \in Threads :
        (pc[r] = "done" /\ loc[r].last_price = None) =>
            (resp[r].code = 400 /\ submitted[r] = <<>>)

\* C5: in the buy flow with balance B > 1 and last price P, the request
\* submits exactly one order, a market buy of (B * qty_pct / 100) / P of the
\* symbol without reduce-only, also when that quantity is zero
ThmC5 ==
    \A r \in Threads :
        LET B == loc[r].available_balance
            P == loc[r].last_price
            q == ExpectedPct(body[r].qty_pct)
        IN  /\ (pc[r] = "done" /\ IsNumber(P) /\ P.n # 0) =>
                /\ Len(submitted[r]) = 1
                /\ submitted[r][1].symbol = body[r].symbol
                /\ submitted[r][1].side = "buy"
                /\ ~submitted[r][1].reduceOnly
                /\ submitted[r][1].amount.n * (B.d * 100 * P.n)
                      = (B.n * q * P.d) * submitted[r][1].amount.d
                /\ (q = 0 => submitted[r][1].amount.n = 0)
            /\ (submitted[r] # <<>> /\ PyEq(body[r].side, PyStr(BUY))) =>
                (IsNumber(P) /\ P.n # 0 /\ B.n > B.d)

WitC5 ==
    \E r \in Threads :
        /\ pc[r] = "done" /\ resp[r].code = 200 /\ resp[r].order
        /\ body[r].qty_pct = PyInt(10)
        /\ loc[r].available_balance = Float(1000, 1)
        /\ loc[r].last_price = Float(2000, 1)
        /\ submitted[r] = <<Order(body[r].symbol, "buy", Float(1, 20), FALSE)>>

\* C6: in the buy flow, a balance B <= 1 (0 when USDT is missing from the
\* balance) is answered 400 and no order is submitted
ThmC6 ==
    \A r \in Threads :
        (IsNumber(loc[r].available_balance)
           /\ loc[r].available_balance.n <= loc[r].available_balance.d) =>
            /\ pc[r] = "done"
            /\ resp[r].code = 400
            /\ submitted[r] = <<>>

WitC6 ==
    \E r \in Threads :
        /\ pc[r] = "done" /\ resp[r].code = 400
        /\ loc[r].available_balance = Float(1, 1)
        /\ PyEq(body[r].side, PyStr(BUY))

\* C7: in the close flow, when the fetched positions hold no entry of the
\* symbol with a nonzero quantity, the answer is 200 "info" and no order is
\* submitted
ThmC7 ==
    \A r \in Threads :
        (loc[r].fetched /\ OpenEntries(loc[r].snapshot, body[r].symbol) = {}) =>
            /\ pc[r] = "done"
            /\ resp[r].code = 200
            /\ resp[r].status = "info"
            /\ submitted[r] = <<>>

WitC7 ==
    \E r \in Threads :
        /\ pc[r] = "done" /\ resp[r].status = "info"
        /\ loc[r].fetched
        /\ Len(loc[r].snapshot) > 0
        /\ \E i \in 1..Len(loc[r].snapshot) :
              PyStr(loc[r].snapshot[i].symbol) # body[r].symbol
              /\ loc[r].snapshot[i].contracts.n # 0

\* C8: a request makes at most one order-submission call on every path; a
\* call that raised is not repeated, and a request that is both a buy and a
\* close submits the buy only
ThmC8 ==
    \A r \in Threads :
        /\ Len(submitted[r]) <= 1
        /\ (submitted[r] # <<>> /\ body[r].side = PyStr(BUY)) =>
              submitted[r][1].side = "buy"
        /\ (pc[r] \notin {"done", "buy_order", "sell_order"}) => submitted[r] = <<>>

WitC8 ==
    \E r \in Threads :
        /\ pc[r] = "done" /\ resp[r].code = 500
        /\ body[r].side = PyStr(BUY) /\ body[r].action = PyStr(CLOSE)
        /\ Len(submitted[r]) = 1

\* C9 as stated: no exception leaves webhook(); every error becomes a JSON
\* error response
CexC9 ==
    \A r \in Threads : pc[r] # "escaped"

\* C10: nothing excludes one close request from another: a request waiting
\* to read the positions can always do so, also while other requests stand
\* between their read and their close order, and the order each submits is
\* a reduce-only order for the whole quantity it read
ThmC10 ==
    \A r \in Threads :
        /\ pc[r] = "fetch_positions" => ENABLED FetchPositionsOk(r)
        /\ pc[r] = "sell_order" => loc[r].qty = loc[r].pos.contracts
        /\ submitted[r] # <<>> =>
              /\ submitted[r][1].reduceOnly
              /\ submitted[r][1].amount = loc[r].pos.contracts

\* two requests read the same open position and both submitted a close order
\* for all of it
WitC10 ==
    \E r1, r2 \in Threads :
        /\ r1 # r2
        /\ pc[r1] = "done" /\ pc[r2] = "done"
        /\ resp[r1].code = 200 /\ resp[r1].order
        /\ body[r1].symbol = body[r2].symbol
        /\ loc[r1].pos = loc[r2].pos
        /\ loc[r1].snapshot = loc[r2].snapshot
        /\ loc[r1].pos.contracts.n > 0
        /\ submitted[r1] = <<Order(body[r1].symbol, "sell", loc[r1].pos.contracts, TRUE)>>
        /\ submitted[r2] = submitted[r1]

====
